---- MODULE Spec2Model ----
(***************************************************************************)
(* The QR submission pipeline of app.py (process_qr_submission) over the   *)
(* store of database.py (qr_codes, qr_sightings), with the destination     *)
(* visitor (safe_browser.py) and the classifier (classifier.py) as         *)
(* collaborators whose answers are inputs.                                 *)
(*                                                                         *)
(* Text columns hold strings, with "None" for NULL.  Confidences are       *)
(* hundredths (0.69 is 69); the nullable Float column confidence_score is  *)
(* <<>> for NULL and <<c>> for the value c.  Primary keys are written as   *)
(* strings ("1", "2", ...), next to the placeholder's id 'debug'.          *)
(*                                                                         *)
(* Spec runs whole submissions, one at a time.  SpecConcurrent runs        *)
(* concurrent calls of find_or_create_qr, each a query step and a commit   *)
(* step.  SpecClassifier runs calls of QRClassifier.classify over every    *)
(* shape of API answer.  SpecThreshold runs whole submissions under a      *)
(* configuration whose confidence threshold may differ from the default.   *)
(* SpecSafety runs debug-mode submissions of URLs of every verdict of the  *)
(* safety check.                                                           *)
(* Every database step may raise a storage error.                          *)
(***************************************************************************)
EXTENDS Integers, Sequences, FiniteSets, TLC

\* Bounds of the model.
NumWorkers == 2
MaxSubmissions == 3

\* Config.CLASSIFICATION_CONFIDENCE_THRESHOLD, in hundredths.
CLASSIFICATION_CONFIDENCE_THRESHOLD == 70

Workers == 1..NumWorkers

\* Payloads a decoded image can carry, and what validators.url says of them.
UrlPayloads == {"http://shop.example/login"}
TextPayloads == {"tel:5551234"}
Payloads == UrlPayloads \cup TextPayloads
Images == Payloads \cup {"NoQR", "Unreadable"}

\* URLs of every verdict of SafeBrowser.check_url_safety: no warning, a
\* suspicious keyword, an IP address, a suspicious TLD with a keyword.
SafetyUrls ==
    {"http://landing.example/menu", "http://shop.example/login",
     "http://192.168.0.1/", "http://free.example.tk/verify"}

validators_url(content) == content \in UrlPayloads \cup SafetyUrls

\* SHA256 of the content: a digest, distinct for distinct contents.
hash_qr_content(content) == <<"sha256", content>>

VARIABLES
    qr_codes,     \* table qr_codes: sequence of rows, in insertion order
    sightings,    \* table qr_sightings: sequence of rows, in insertion order
    config,       \* Config: skip policy, whether a classifier is configured, and
                  \* the confidence threshold
    proc,         \* per worker: the locals of the running process_qr_submission
    result,       \* per mode: the dict returned by the last submission made with
                  \* debug_mode = d, and what that submission did (its payload,
                  \* the visitor's and the API's answers, the numbers of calls)
    started,      \* number of submissions received so far
    history       \* per payload: the is_duplicate flags find_or_create_qr returned

vars == <<qr_codes, sightings, config, proc, result, started, history>>

----------------------------------------------------------------------------
\* Rows and locals.

\* Faulty variant: the times_found column defaulting to 0 instead of 1.
NewQRCodeCountsFromZero(id, content, now) ==
    [id |-> id, content_hash |-> hash_qr_content(content), qr_content |-> content,
     first_seen |-> now, times_found |-> 0,
     destination_url |-> "None", final_url |-> "None", site_title |-> "None",
     classification |-> "None", confidence_score |-> <<>>,
     is_malicious |-> FALSE, manual_review |-> FALSE]

\* QRCode(content_hash=..., qr_content=...): column defaults for the rest.
NewQRCode(id, content, now) ==
    [id |-> id, content_hash |-> hash_qr_content(content), qr_content |-> content,
     first_seen |-> now, times_found |-> 1,
     destination_url |-> "None", final_url |-> "None", site_title |-> "None",
     classification |-> "None", confidence_score |-> <<>>,
     is_malicious |-> FALSE, manual_review |-> FALSE]

\* Faulty variant: the placeholder counting itself as a first sighting.
MockQRCodeCounted(content) ==
    [id |-> "debug", content_hash |-> hash_qr_content(content), qr_content |-> content,
     first_seen |-> 0, times_found |-> 1,
     destination_url |-> "None", final_url |-> "None", site_title |-> "None",
     classification |-> "None", confidence_score |-> <<>>,
     is_malicious |-> FALSE, manual_review |-> FALSE]

\* MockQRCode(content): the in-memory placeholder of debug mode.
MockQRCode(content) ==
    [id |-> "debug", content_hash |-> hash_qr_content(content), qr_content |-> content,
     first_seen |-> 0, times_found |-> 0,
     destination_url |-> "None", final_url |-> "None", site_title |-> "None",
     classification |-> "None", confidence_score |-> <<>>,
     is_malicious |-> FALSE, manual_review |-> FALSE]

\* The value of qr_code before it is bound, and in a failed result.
NoQRCode ==
    [id |-> "None", content_hash |-> <<"sha256", "None">>, qr_content |-> "None",
     first_seen |-> 0, times_found |-> 0,
     destination_url |-> "None", final_url |-> "None", site_title |-> "None",
     classification |-> "None", confidence_score |-> <<>>,
     is_malicious |-> FALSE, manual_review |-> FALSE]

\* browse_result = None and classification_result = None.
NoBrowse ==
    [called |-> FALSE, success |-> FALSE, error |-> "None", destination_url |-> "None",
     final_url |-> "None", title |-> "None", screenshot_path |-> "None"]

NoClassification ==
    [called |-> FALSE, category |-> "None", confidence |-> 0, is_malicious |-> FALSE]

\* No answer of the classifier API yet.
NoReply ==
    [name |-> "None", api_ok |-> FALSE, category |-> "absent",
     confidence |-> [kind |-> "absent", value |-> 0], malicious |-> "absent"]

\* The locals of process_qr_submission before it runs.
IdleProc ==
    [pc |-> "idle", qr_content |-> "None", debug_mode |-> FALSE,
     qr_code |-> NoQRCode, is_duplicate |-> FALSE, sighting |-> "None",
     image_path |-> 0,
     browse_result |-> NoBrowse, classification_result |-> NoClassification,
     warnings |-> {}, classifier_warnings |-> {}, reply |-> NoReply,
     visits |-> 0, classifications |-> 0]

NoResult ==
    [kind |-> "none", success |-> FALSE, error |-> "None", qr_code |-> NoQRCode,
     is_duplicate |-> FALSE, sighting |-> "None", browse_result |-> NoBrowse,
     classification |-> NoClassification, debug_mode |-> FALSE, has_debug_mode |-> FALSE,
     qr_content |-> "None", reply |-> NoReply, visits |-> 0, classifications |-> 0,
     visited |-> NoBrowse, classifier_warnings |-> {}]

\* The dict of the except clause, and of the 'No QR code found' return.
FailedResult(p, error, has_debug) ==
    [NoResult EXCEPT !.kind = "failed", !.error = error,
                     !.has_debug_mode = has_debug,
                     !.debug_mode = IF has_debug THEN p.debug_mode ELSE FALSE,
                     !.qr_content = p.qr_content, !.reply = p.reply, !.visits = p.visits,
                     !.classifications = p.classifications,
                     !.visited = p.browse_result,
                     !.classifier_warnings = p.classifier_warnings]

----------------------------------------------------------------------------
\* Queries.

\* session.query(QRCode).filter_by(content_hash=h).first(): the row's index, 0 if none.
first_by_hash(h) ==
    IF \E i \in 1..Len(qr_codes) : qr_codes[i].content_hash = h
    THEN CHOOSE i \in 1..Len(qr_codes) :
            /\ qr_codes[i].content_hash = h
            /\ \A j \in 1..(i - 1) : qr_codes[j].content_hash # h
    ELSE 0

\* session.query(QRCode).get(id): the row's index, 0 if none.
get_by_id(id) ==
    IF \E i \in 1..Len(qr_codes) : qr_codes[i].id = id
    THEN CHOOSE i \in 1..Len(qr_codes) : qr_codes[i].id = id
    ELSE 0

----------------------------------------------------------------------------
Init ==
    /\ qr_codes = <<>>
    /\ sightings = <<>>
    /\ config \in [skip_duplicates : BOOLEAN, classifier : BOOLEAN,
                   confidence_threshold : {CLASSIFICATION_CONFIDENCE_THRESHOLD}]
    /\ proc = [w \in Workers |-> IdleProc]
    /\ result = [d \in BOOLEAN |-> NoResult]
    /\ started = 0
    /\ history = [p \in Payloads |-> <<>>]

\* Faulty variant: the exception escaping process_qr_submission, no dict
\* returned.
RaiseEscapes(w, error) ==
    /\ proc' = [proc EXCEPT ![w] = IdleProc]
    /\ UNCHANGED result

\* Faulty variant: the exception swallowed and the submission carried on to
\* the sighting.
RaiseSwallowed(w, error) ==
    /\ proc' = [proc EXCEPT ![w].pc = "found"]
    /\ UNCHANGED result

\* The except clause of process_qr_submission: any exception ends the
\* submission with a failed result.
Raise(w, error) ==
    /\ proc' = [proc EXCEPT ![w] = IdleProc]
    /\ result' = [result EXCEPT ![proc[w].debug_mode] = FailedResult(proc[w], error, FALSE)]

\* Faulty variant: the mode split always taking the in-memory branch.
UsesStoreNever(debug_mode) == FALSE

\* Faulty variant: the mode split always taking the database branch.
UsesStoreAlways(debug_mode) == TRUE

\* if debug_mode: ... else: the database branch.
UsesStore(debug_mode) == ~debug_mode

\* Step 1: ImageProcessor(image_path).process(), then the mode split.
\* Submissions are processed one at a time; the first worker takes each.
Receive(w) ==
    /\ \A v \in Workers : proc[v].pc = "idle" /\ w <= v
    /\ started < MaxSubmissions
    /\ started' = started + 1
    /\ UNCHANGED <<qr_codes, sightings, config, history>>
    /\ \E image \in Images, debug_mode \in BOOLEAN :
        LET p == [IdleProc EXCEPT !.debug_mode = debug_mode] IN
        IF image = "Unreadable"
        THEN /\ proc' = [proc EXCEPT ![w] = IdleProc]
             /\ result' = [result EXCEPT ![debug_mode] =
                              FailedResult(p, "cannot identify image file", FALSE)]
        ELSE IF image = "NoQR"
        THEN /\ proc' = [proc EXCEPT ![w] = IdleProc]
             /\ result' = [result EXCEPT ![debug_mode] =
                              FailedResult(p, "No QR code found in image", TRUE)]
        ELSE /\ result' = [result EXCEPT ![debug_mode] = NoResult]
             /\ IF UsesStore(debug_mode)
                THEN proc' = [proc EXCEPT ![w] =
                        [IdleProc EXCEPT !.pc = "find_query", !.qr_content = image,
                                         !.debug_mode = debug_mode,
                                         !.image_path = started + 1]]
                ELSE proc' = [proc EXCEPT ![w] =
                        [IdleProc EXCEPT !.pc = "decide", !.qr_content = image,
                                         !.debug_mode = debug_mode,
                                         !.image_path = started + 1,
                                         !.qr_code = MockQRCode(image),
                                         !.is_duplicate = FALSE, !.sighting = "None"]]

----------------------------------------------------------------------------
\* DatabaseManager.find_or_create_qr, in its two database steps: the SELECT
\* of session.query(...).first(), then the UPDATE or INSERT of session.commit().
\* A storage error in either raises out of the call (the finally clause only
\* closes the session).

\* Faulty variant: content_hash without its unique constraint.
UniqueViolationNever(h) == FALSE

\* content_hash is declared unique=True: an INSERT of a hash the table holds fails.
UniqueViolation(h) == \E i \in 1..Len(qr_codes) : qr_codes[i].content_hash = h

find_or_create_qr_query(w) ==
    /\ proc[w].pc = "find_query"
    /\ UNCHANGED <<qr_codes, sightings, config, started, history>>
    /\ \E ok \in BOOLEAN :
        IF ~ok
        THEN Raise(w, "StorageError")
        ELSE LET i == first_by_hash(hash_qr_content(proc[w].qr_content)) IN
             /\ proc' = [proc EXCEPT ![w].pc = "find_commit",
                                     ![w].qr_code = IF i = 0 THEN NoQRCode ELSE qr_codes[i]]
             /\ UNCHANGED result

\* Faulty variant: first_seen refreshed whenever the row is updated.
flush_duplicate_refreshing_first_seen(row, loaded) ==
    [row EXCEPT !.times_found = loaded.times_found + 1, !.first_seen = @ + 1]

\* The UPDATE flushed for qr_code.times_found += 1: the one column changed.
flush_duplicate(row, loaded) == [row EXCEPT !.times_found = loaded.times_found + 1]

find_or_create_qr_commit(w) ==
    /\ proc[w].pc = "find_commit"
    /\ UNCHANGED <<sightings, config, started>>
    /\ \E ok \in BOOLEAN :
        LET content == proc[w].qr_content
            loaded == proc[w].qr_code
        IN
        IF ~ok
        THEN /\ Raise(w, "StorageError")
             /\ UNCHANGED <<qr_codes, history>>
        ELSE IF loaded.id # "None"
        THEN \* Duplicate found: qr_code.times_found += 1 on the loaded object,
             \* flushed as UPDATE ... SET times_found = <loaded value + 1>.
             LET i == get_by_id(loaded.id)
                 updated == [loaded EXCEPT !.times_found = loaded.times_found + 1]
             IN
             /\ qr_codes' = [qr_codes EXCEPT ![i] = flush_duplicate(@, loaded)]
             /\ history' = [history EXCEPT ![content] = Append(@, TRUE)]
             /\ proc' = [proc EXCEPT ![w].pc = "found", ![w].qr_code = updated,
                                     ![w].is_duplicate = TRUE]
             /\ UNCHANGED result
        ELSE IF UniqueViolation(hash_qr_content(content))
        THEN /\ Raise(w, "IntegrityError")
             /\ UNCHANGED <<qr_codes, history>>
        ELSE LET row == NewQRCode(ToString(Len(qr_codes) + 1), content, started) IN
             /\ qr_codes' = Append(qr_codes, row)
             /\ history' = [history EXCEPT ![content] = Append(@, FALSE)]
             /\ proc' = [proc EXCEPT ![w].pc = "found", ![w].qr_code = row,
                                     ![w].is_duplicate = FALSE]
             /\ UNCHANGED result

\* DatabaseManager.add_sighting: one INSERT into qr_sightings.
add_sighting(w) ==
    /\ proc[w].pc = "found"
    /\ UNCHANGED <<qr_codes, config, started, history>>
    /\ \E ok \in BOOLEAN :
        IF ~ok
        THEN /\ Raise(w, "StorageError")
             /\ UNCHANGED sightings
        ELSE LET row == [id |-> ToString(Len(sightings) + 1),
                         qr_code_id |-> proc[w].qr_code.id,
                         image_path |-> proc[w].image_path,
                         screenshot_path |-> "None"]
             IN
             /\ sightings' = Append(sightings, row)
             /\ proc' = [proc EXCEPT ![w].pc = "decide", ![w].sighting = row.id]
             /\ UNCHANGED result

----------------------------------------------------------------------------
\* Step 4: the decision.

\* Faulty variant: duplicates skipped whatever the policy says.
should_analyze_ignoring_policy(debug_mode, is_duplicate, skip_duplicates) ==
    debug_mode \/ ~is_duplicate

\* Faulty variant: the policy flag read without its 'not'.
should_analyze_policy_inverted(debug_mode, is_duplicate, skip_duplicates) ==
    debug_mode \/ (~is_duplicate \/ skip_duplicates)

\* Faulty variant: the debug override forgotten.
should_analyze_without_debug(debug_mode, is_duplicate, skip_duplicates) ==
    ~is_duplicate \/ ~skip_duplicates

\* should_analyze = debug_mode or (not is_duplicate or not SKIP_CLASSIFICATION_FOR_DUPLICATES)
should_analyze(debug_mode, is_duplicate, skip_duplicates) ==
    debug_mode \/ (~is_duplicate \/ ~skip_duplicates)

\* Faulty variant: the URL test of the payload dropped.
analysis_runs_without_url_test(debug_mode, is_duplicate, skip_duplicates, qr_content) ==
    should_analyze(debug_mode, is_duplicate, skip_duplicates)

\* if should_analyze and validators.url(qr_content):
analysis_runs(debug_mode, is_duplicate, skip_duplicates, qr_content) ==
    should_analyze(debug_mode, is_duplicate, skip_duplicates) /\ validators_url(qr_content)

decide(w) ==
    /\ proc[w].pc = "decide"
    /\ UNCHANGED <<qr_codes, sightings, config, result, started, history>>
    /\ proc' = [proc EXCEPT ![w].pc =
                  IF analysis_runs(proc[w].debug_mode, proc[w].is_duplicate,
                                   config.skip_duplicates, proc[w].qr_content)
                  THEN "browse" ELSE "refresh"]

----------------------------------------------------------------------------
\* The collaborators.

\* What the page load can answer: a page (with or without a saved screenshot,
\* _save_screenshot returns None when it fails), a timeout, or another error.
VisitResponses ==
    { [success |-> TRUE, error |-> "None", final_url |-> "http://shop.example/home",
       title |-> "Shop", screenshot_path |-> "qr.png"],
      [success |-> TRUE, error |-> "None", final_url |-> "http://landing.example",
       title |-> "Landing", screenshot_path |-> "None"],
      [success |-> FALSE, error |-> "Page load timeout", final_url |-> "None",
       title |-> "None", screenshot_path |-> "None"],
      [success |-> FALSE, error |-> "Browser error", final_url |-> "None",
       title |-> "None", screenshot_path |-> "None"] }

\* SafeBrowser.navigate_and_capture(url, qr_code_id) given the page's answer.
navigate_and_capture(url, page) ==
    IF ~validators_url(url)
    THEN [NoBrowse EXCEPT !.called = TRUE, !.error = "Invalid URL format"]
    ELSE IF page.success
    THEN [called |-> TRUE, success |-> TRUE, error |-> "None", destination_url |-> url,
          final_url |-> page.final_url, title |-> page.title,
          screenshot_path |-> page.screenshot_path]
    ELSE [NoBrowse EXCEPT !.called = TRUE, !.error = page.error, !.destination_url = url]

\* SafeBrowser.check_url_safety(url): whether any warning is raised
\* (here the suspicious keyword 'login').
SuspiciousUrls == {"http://shop.example/login", "http://free.example.tk/verify"}
SuspiciousTldUrls == {"http://free.example.tk/verify"}
IpAddressUrls == {"http://192.168.0.1/"}
check_url_safety_warnings(url) ==
    (IF url \in SuspiciousTldUrls THEN {"Suspicious TLD"} ELSE {})
    \cup (IF url \in IpAddressUrls THEN {"IP address instead of domain"} ELSE {})
    \cup (IF url \in SuspiciousUrls THEN {"Contains suspicious keywords"} ELSE {})
check_url_safety_is_safe(url) == check_url_safety_warnings(url) = {}

\* Faulty variant: the classifier called without the warnings.
warnings_passed_none(warnings) == {}

\* classifier.classify(..., warnings=warnings)
warnings_passed(warnings) == warnings

\* QRClassifier.CATEGORIES
CATEGORIES ==
    {"promotional", "informational", "business", "personal", "transactional", "social",
     "event", "scam", "malicious", "shortened_url", "other"}

\* What the API call can answer: an exception, or a text whose CATEGORY:,
\* CONFIDENCE: and MALICIOUS: lines are as given ("absent": no such line;
\* a CONFIDENCE: line holds a number, in hundredths, or text float() rejects).
Number(c) == [kind |-> "number", value |-> c]
Garbage == [kind |-> "garbage", value |-> 0]
Absent == [kind |-> "absent", value |-> 0]
Reply(name, category, confidence, malicious) ==
    [name |-> name, api_ok |-> TRUE, category |-> category, confidence |-> confidence,
     malicious |-> malicious]
ApiError ==
    [name |-> "api error", api_ok |-> FALSE, category |-> "absent",
     confidence |-> Absent, malicious |-> "absent"]

ClassifierReplies ==
    { Reply("scam 0.69", "scam", Number(69), "yes"),
      Reply("promotional 0.70", "promotional", Number(70), "no"),
      Reply("business 0.71", "business", Number(71), "no"),
      Reply("scam high", "scam", Garbage, "yes"),
      ApiError }

\* Faulty variant: a failed call answered with the parser's neutral defaults.
ErrorClassificationNeutral ==
    [called |-> TRUE, category |-> "other", confidence |-> 50, is_malicious |-> FALSE]

\* The dict of the except clauses of classify and _parse_classification.
ErrorClassification ==
    [called |-> TRUE, category |-> "error", confidence |-> 0, is_malicious |-> FALSE]

\* Faulty variant: the category taken as answered, without the test against
\* CATEGORIES.
parse_classification_any_category(reply) ==
    IF reply.confidence.kind = "garbage"
    THEN ErrorClassification
    ELSE LET category == IF reply.category = "absent" THEN "other" ELSE reply.category
             confidence == IF reply.confidence.kind = "absent" THEN 50
                           ELSE reply.confidence.value
         IN [called |-> TRUE, category |-> category,
             confidence |-> IF ~(0 <= confidence /\ confidence <= 100) THEN 50
                            ELSE confidence,
             is_malicious |-> reply.malicious \in {"yes", "true"}]

\* QRClassifier._parse_classification(response_text)
parse_classification(reply) ==
    IF reply.confidence.kind = "garbage"
    THEN ErrorClassification        \* float(conf_str) raises ValueError
    ELSE LET category == IF reply.category = "absent" THEN "other" ELSE reply.category
             confidence == IF reply.confidence.kind = "absent" THEN 50
                           ELSE reply.confidence.value
             is_malicious == reply.malicious \in {"yes", "true"}
         IN [called |-> TRUE,
             category |-> IF category \notin CATEGORIES THEN "other" ELSE category,
             confidence |-> IF ~(0 <= confidence /\ confidence <= 100) THEN 50
                            ELSE confidence,
             is_malicious |-> is_malicious]

\* QRClassifier.classify(...)
classify(reply) ==
    IF ~reply.api_ok THEN ErrorClassification ELSE parse_classification(reply)

\* Faulty variant: the flag left at the column's default.
manual_review_stored_never(confidence) == FALSE

\* Faulty variants: the boundary taken on the review side.
manual_review_stored_inclusive(confidence) == confidence <= 70
manual_review_debug_inclusive(confidence) == confidence <= 70

\* qr_code.manual_review = confidence < 0.7, in update_qr_classification
manual_review_stored(confidence) == confidence < 70

\* qr_code.manual_review = classification_result['confidence'] < 0.7, in debug mode
manual_review_debug(confidence) == confidence < 70

----------------------------------------------------------------------------
\* Step 4, continued: the visit and the classification.

\* Faulty variant: the visit's outcome not tested.
visit_succeeded_always(browse_result) == TRUE

\* if browse_result['success']:
visit_succeeded(browse_result) == browse_result.success

\* Faulty variant: a failed visit attempted again.
after_failed_visit_retry == "browse"

\* else: print(f"Browse failed: ...") and on to the refresh, with no retry.
after_failed_visit == "refresh"

\* Faulty variant: the classifier called whether or not one was constructed.
classifier_configured_always(classifier) == TRUE

\* if classifier:
classifier_configured(classifier) == classifier

\* check_url_safety, navigate_and_capture and, in debug mode, the writes to
\* the placeholder.
browse(w) ==
    /\ proc[w].pc = "browse"
    /\ UNCHANGED <<qr_codes, sightings, config, result, started, history>>
    /\ \E page \in VisitResponses :
        LET p == proc[w]
            br == navigate_and_capture(p.qr_content, page)
            seen == [p EXCEPT !.browse_result = br, !.visits = @ + 1,
                              !.warnings = check_url_safety_warnings(p.qr_content)]
        IN
        IF ~visit_succeeded(br)
        THEN proc' = [proc EXCEPT ![w] = [seen EXCEPT !.pc = after_failed_visit]]
        ELSE IF p.debug_mode
        THEN proc' = [proc EXCEPT ![w] =
                 [seen EXCEPT !.pc = "classify",
                              !.qr_code.destination_url = br.destination_url,
                              !.qr_code.final_url = br.final_url,
                              !.qr_code.site_title = br.title]]
        ELSE proc' = [proc EXCEPT ![w] = [seen EXCEPT !.pc = "update_destination"]]

\* Faulty variant: destination fields written only while they are null.
destination_written_once(row, br) ==
    IF row.destination_url # "None" THEN row
    ELSE [row EXCEPT !.destination_url = br.destination_url,
                     !.final_url = br.final_url, !.site_title = br.title]

\* qr_code.destination_url = ...; qr_code.final_url = ...; qr_code.site_title = ...
destination_written(row, br) ==
    [row EXCEPT !.destination_url = br.destination_url,
                !.final_url = br.final_url, !.site_title = br.title]

\* DatabaseManager.update_qr_destination
update_qr_destination(w) ==
    /\ proc[w].pc = "update_destination"
    /\ UNCHANGED <<sightings, config, started, history>>
    /\ \E ok \in BOOLEAN :
        LET p == proc[w]
            br == p.browse_result
            i == get_by_id(p.qr_code.id)
        IN
        IF ~ok
        THEN /\ Raise(w, "StorageError")
             /\ UNCHANGED qr_codes
        ELSE /\ qr_codes' = IF i = 0 THEN qr_codes
                            ELSE [qr_codes EXCEPT ![i] = destination_written(@, br)]
             /\ proc' = [proc EXCEPT ![w].pc =
                           IF br.screenshot_path # "None" THEN "update_screenshot"
                           ELSE "classify"]
             /\ UNCHANGED result

\* Faulty variant: the update matching every sighting of the record.
where_sighting_of_record(row, p) == row.qr_code_id = p.qr_code.id

\* .where(QRSighting.id == sighting.id)
where_sighting(row, p) == row.id = p.sighting

\* update(QRSighting).where(QRSighting.id == sighting.id).values(screenshot_path=...)
update_screenshot(w) ==
    /\ proc[w].pc = "update_screenshot"
    /\ UNCHANGED <<qr_codes, config, started, history>>
    /\ \E ok \in BOOLEAN :
        IF ~ok
        THEN /\ Raise(w, "StorageError")
             /\ UNCHANGED sightings
        ELSE /\ sightings' = [i \in 1..Len(sightings) |->
                                IF where_sighting(sightings[i], proc[w])
                                THEN [sightings[i] EXCEPT !.screenshot_path =
                                         proc[w].browse_result.screenshot_path]
                                ELSE sightings[i]]
             /\ proc' = [proc EXCEPT ![w].pc = "classify"]
             /\ UNCHANGED result

\* if classifier: classifier.classify(...), and in debug mode the writes to
\* the placeholder.
classify_destination(w) ==
    /\ proc[w].pc = "classify"
    /\ UNCHANGED <<qr_codes, sightings, config, result, started, history>>
    /\ IF ~classifier_configured(config.classifier)
       THEN proc' = [proc EXCEPT ![w].pc = "refresh"]
       ELSE \E reply \in ClassifierReplies :
            LET p == proc[w]
                cr == classify(reply)
                called == [p EXCEPT !.classification_result = cr, !.reply = reply,
                                    !.classifier_warnings = warnings_passed(p.warnings),
                                    !.classifications = @ + 1]
            IN
            IF p.debug_mode
            THEN proc' = [proc EXCEPT ![w] =
                     [called EXCEPT !.pc = "refresh",
                                    !.qr_code.classification = cr.category,
                                    !.qr_code.confidence_score = <<cr.confidence>>,
                                    !.qr_code.is_malicious = cr.is_malicious,
                                    !.qr_code.manual_review =
                                        manual_review_debug(cr.confidence)]]
            ELSE proc' = [proc EXCEPT ![w] = [called EXCEPT !.pc = "update_classification"]]

\* Faulty variant: a failed classification not stored.
classification_written_unless_error(row, cr) ==
    IF cr.category = "error" THEN row
    ELSE [row EXCEPT !.classification = cr.category,
                     !.confidence_score = <<cr.confidence>>,
                     !.is_malicious = cr.is_malicious,
                     !.manual_review = manual_review_stored(cr.confidence)]

\* qr_code.classification = ...; .confidence_score = ...; .is_malicious = ...;
\* .manual_review = confidence < 0.7
classification_written(row, cr) ==
    [row EXCEPT !.classification = cr.category,
                !.confidence_score = <<cr.confidence>>,
                !.is_malicious = cr.is_malicious,
                !.manual_review = manual_review_stored(cr.confidence)]

\* DatabaseManager.update_qr_classification
update_qr_classification(w) ==
    /\ proc[w].pc = "update_classification"
    /\ UNCHANGED <<sightings, config, started, history>>
    /\ \E ok \in BOOLEAN :
        LET p == proc[w]
            cr == p.classification_result
            i == get_by_id(p.qr_code.id)
        IN
        IF ~ok
        THEN /\ Raise(w, "StorageError")
             /\ UNCHANGED qr_codes
        ELSE /\ qr_codes' = IF i = 0 THEN qr_codes
                            ELSE [qr_codes EXCEPT ![i] = classification_written(@, cr)]
             /\ proc' = [proc EXCEPT ![w].pc = "refresh"]
             /\ UNCHANGED result

\* The refresh of qr_code (normal mode only) and the returned dict.
CompleteResult(p, qr_code) ==
    [kind |-> "complete", success |-> TRUE, error |-> "None", qr_code |-> qr_code,
     is_duplicate |-> p.is_duplicate, sighting |-> p.sighting,
     browse_result |-> p.browse_result, classification |-> p.classification_result,
     debug_mode |-> p.debug_mode, has_debug_mode |-> TRUE,
     qr_content |-> p.qr_content, reply |-> p.reply, visits |-> p.visits,
     classifications |-> p.classifications, visited |-> p.browse_result,
     classifier_warnings |-> p.classifier_warnings]

\* Faulty variant: the object find_or_create_qr returned put in the result.
refreshed_stale(row, loaded) == loaded

\* qr_code = session.query(QRCode).get(qr_code.id)
refreshed(row, loaded) == row

refresh_and_return(w) ==
    /\ proc[w].pc = "refresh"
    /\ UNCHANGED <<qr_codes, sightings, config, started, history>>
    /\ LET p == proc[w] IN
       IF p.debug_mode
       THEN /\ result' = [result EXCEPT ![TRUE] = CompleteResult(p, p.qr_code)]
            /\ proc' = [proc EXCEPT ![w] = IdleProc]
       ELSE \E ok \in BOOLEAN :
            IF ~ok
            THEN Raise(w, "StorageError")
            ELSE LET i == get_by_id(p.qr_code.id) IN
                 /\ result' = [result EXCEPT ![FALSE] =
                                 CompleteResult(p, refreshed(qr_codes[i], p.qr_code))]
                 /\ proc' = [proc EXCEPT ![w] = IdleProc]

----------------------------------------------------------------------------
\* Concurrent callers of DatabaseManager.find_or_create_qr (request threads
\* of the Flask server): each call is the query step, then the commit step.

call_find_or_create_qr(w) ==
    /\ proc[w].pc = "idle"
    /\ started < MaxSubmissions
    /\ started' = started + 1
    /\ UNCHANGED <<qr_codes, sightings, config, result, history>>
    /\ \E content \in Payloads :
        proc' = [proc EXCEPT ![w] = [IdleProc EXCEPT !.pc = "find_query",
                                                     !.qr_content = content]]

return_find_or_create_qr(w) ==
    /\ proc[w].pc = "found"
    /\ proc' = [proc EXCEPT ![w] = IdleProc]
    /\ UNCHANGED <<qr_codes, sightings, config, result, started, history>>

NextConcurrent ==
    \E w \in Workers :
        \/ call_find_or_create_qr(w)
        \/ find_or_create_qr_query(w)
        \/ find_or_create_qr_commit(w)
        \/ return_find_or_create_qr(w)

SpecConcurrent == Init /\ [][NextConcurrent]_vars

----------------------------------------------------------------------------
\* Direct callers of QRClassifier.classify, one call at a time, over every
\* shape of answer: each of the three lines absent or present, the category
\* inside or outside CATEGORIES, the confidence inside or outside [0, 1] or
\* not a number.
CategoriesAnswered == {"absent", "scam", "other", "clickbait", "error"}
ConfidencesAnswered ==
    {Absent, Garbage} \cup {Number(c) : c \in {0 - 10, 0, 50, 69, 100, 150}}
MaliciousAnswered == {"absent", "yes", "true", "no"}
AllReplies ==
    {ApiError} \cup
    { Reply("text", category, confidence, malicious) :
        category \in CategoriesAnswered, confidence \in ConfidencesAnswered,
        malicious \in MaliciousAnswered }

call_classify(w) ==
    /\ \A v \in Workers : proc[v].pc = "idle" /\ w <= v
    /\ started < MaxSubmissions
    /\ started' = started + 1
    /\ UNCHANGED <<qr_codes, sightings, config, result, history>>
    /\ \E reply \in AllReplies :
        proc' = [proc EXCEPT ![w] =
                    [IdleProc EXCEPT !.pc = "classified", !.reply = reply,
                                     !.classification_result = classify(reply),
                                     !.classifications = 1]]

return_classify(w) ==
    /\ proc[w].pc = "classified"
    /\ proc' = [proc EXCEPT ![w] = IdleProc]
    /\ UNCHANGED <<qr_codes, sightings, config, result, started, history>>

NextClassifier ==
    \E w \in Workers :
        \/ call_classify(w)
        \/ return_classify(w)

SpecClassifier == Init /\ [][NextClassifier]_vars

----------------------------------------------------------------------------
\* Debug-mode submissions, one at a time, of images whose QR code holds a URL
\* of any verdict of the safety check.
ReceiveDebugUrl(w) ==
    /\ \A v \in Workers : proc[v].pc = "idle" /\ w <= v
    /\ started < MaxSubmissions
    /\ started' = started + 1
    /\ UNCHANGED <<qr_codes, sightings, config, history>>
    /\ \E url \in SafetyUrls :
        /\ result' = [result EXCEPT ![TRUE] = NoResult]
        /\ proc' = [proc EXCEPT ![w] =
                [IdleProc EXCEPT !.pc = "decide", !.qr_content = url,
                                 !.debug_mode = TRUE,
                                 !.image_path = started + 1,
                                 !.qr_code = MockQRCode(url),
                                 !.is_duplicate = FALSE, !.sighting = "None"]]

NextSafety ==
    \E w \in Workers :
        \/ ReceiveDebugUrl(w)
        \/ decide(w)
        \/ browse(w)
        \/ classify_destination(w)
        \/ refresh_and_return(w)

SpecSafety == Init /\ [][NextSafety]_vars

Next ==
    \E w \in Workers :
        \/ Receive(w)
        \/ find_or_create_qr_query(w)
        \/ find_or_create_qr_commit(w)
        \/ add_sighting(w)
        \/ decide(w)
        \/ browse(w)
        \/ update_qr_destination(w)
        \/ update_screenshot(w)
        \/ classify_destination(w)
        \/ update_qr_classification(w)
        \/ refresh_and_return(w)

Spec == Init /\ [][Next]_vars

\* Whole submissions under a configuration whose
\* CLASSIFICATION_CONFIDENCE_THRESHOLD is the default or another value.
Thresholds ==
    {CLASSIFICATION_CONFIDENCE_THRESHOLD, CLASSIFICATION_CONFIDENCE_THRESHOLD + 1}

InitThreshold ==
    /\ qr_codes = <<>>
    /\ sightings = <<>>
    /\ config \in [skip_duplicates : {TRUE}, classifier : {TRUE},
                   confidence_threshold : Thresholds]
    /\ proc = [w \in Workers |-> IdleProc]
    /\ result = [d \in BOOLEAN |-> NoResult]
    /\ started = 0
    /\ history = [p \in Payloads |-> <<>>]

SpecThreshold == InitThreshold /\ [][Next]_vars

----------------------------------------------------------------------------
\* Properties.

AllIdle == \A w \in Workers : proc[w].pc = "idle"
RowsOf(content) ==
    {i \in 1..Len(qr_codes) : qr_codes[i].content_hash = hash_qr_content(content)}
SightingsOf(id) == {j \in 1..Len(sightings) : sightings[j].qr_code_id = id}
DuplicateReturns(content) ==
    Cardinality({k \in 1..Len(history[content]) : history[content][k]})

\* C1: after n >= 1 sequential find_or_create_qr calls for a payload that had
\* no record, there is exactly one record for it, its times_found is n, and
\* is_duplicate was False on the first call and True on every later one.
C1_DedupIdempotence ==
    \A content \in Payloads :
        history[content] # <<>> =>
            /\ Cardinality(RowsOf(content)) = 1
            /\ \A i \in RowsOf(content) : qr_codes[i].times_found = Len(history[content])
            /\ history[content][1] = FALSE
            /\ \A k \in 2..Len(history[content]) : history[content][k] = TRUE

C1_Witness ==
    \E content \in Payloads :
        /\ Len(history[content]) >= 3
        /\ \E i \in RowsOf(content) : qr_codes[i].times_found = 3

\* C2: whenever no submission is in progress, every record's times_found is
\* the number of sightings that reference the record.
C2_TimesFoundCountsSightings ==
    AllIdle =>
        \A i \in 1..Len(qr_codes) :
            qr_codes[i].times_found = Cardinality(SightingsOf(qr_codes[i].id))

\* C3: under any interleaving of concurrent find_or_create_qr calls, no two
\* records share a content_hash.
C3_UniqueContentHash ==
    \A i, j \in 1..Len(qr_codes) :
        i # j => qr_codes[i].content_hash # qr_codes[j].content_hash

\* Two calls both found no record; one inserted, the other's insert was refused.
C3_Witness ==
    /\ result[FALSE].error = "IntegrityError"
    /\ \E content \in Payloads :
        Cardinality(RowsOf(content)) = 1 /\ Len(history[content]) = 1

\* C4: when all concurrent find_or_create_qr calls have completed, times_found
\* has grown by one for every call that found the record (no increment lost).
C4_NoLostIncrement ==
    AllIdle =>
        \A content \in Payloads : \A i \in RowsOf(content) :
            qr_codes[i].times_found = 1 + DuplicateReturns(content)

\* C5: no step of a debug-mode submission changes qr_codes or qr_sightings.
C5_DebugNonMutation ==
    [][\A w \in Workers :
          (proc'[w] # proc[w] /\ (proc[w].debug_mode \/ proc'[w].debug_mode))
              => (qr_codes' = qr_codes /\ sightings' = sightings)]_vars

\* A debug submission visited and classified a payload whose stored record
\* and sighting still hold nothing from any analysis.
C5_Witness ==
    /\ result[TRUE].kind = "complete"
    /\ result[TRUE].browse_result.success
    /\ result[TRUE].classification.called
    /\ Len(sightings) = 1 /\ sightings[1].screenshot_path = "None"
    /\ \E i \in RowsOf(result[TRUE].qr_content) :
        /\ qr_codes[i].times_found = 1
        /\ qr_codes[i].destination_url = "None"
        /\ qr_codes[i].classification = "None"

\* The two returned dicts compared: the last debug-mode one and the last
\* normal-mode one, when both are Complete results for the same payload whose
\* visit got the same answer and whose classifier, where asked, the same reply.
SameAnalysisInputs ==
    /\ result[TRUE].kind = "complete" /\ result[FALSE].kind = "complete"
    /\ result[TRUE].qr_content = result[FALSE].qr_content
    /\ result[TRUE].visits > 0 /\ result[FALSE].visits > 0
    /\ result[TRUE].browse_result = result[FALSE].browse_result
    /\ (result[TRUE].classifications > 0 /\ result[FALSE].classifications > 0)
           => result[TRUE].reply = result[FALSE].reply
DestinationFields(r) == <<r.destination_url, r.final_url, r.site_title>>
ClassificationFields(r) ==
    <<r.classification, r.confidence_score, r.is_malicious, r.manual_review>>

\* C6 as stated: with the same inputs the debug and the normal submission
\* return the same classification outcome and records equal in all seven
\* analysis fields.
C6_DebugNormalEquivalence ==
    SameAnalysisInputs =>
        /\ result[TRUE].classification = result[FALSE].classification
        /\ DestinationFields(result[TRUE].qr_code) = DestinationFields(result[FALSE].qr_code)
        /\ ClassificationFields(result[TRUE].qr_code)
               = ClassificationFields(result[FALSE].qr_code)

\* C6 amended: with the same inputs the two submissions return the same
\* classification outcome; the records agree on the destination fields when
\* the visit succeeded, on the classification fields when the classifier was
\* called, and on all seven when the normal-mode payload had no prior record.
C6_EquivalenceOfWrittenFields ==
    SameAnalysisInputs =>
        /\ result[TRUE].classification = result[FALSE].classification
        /\ (result[FALSE].browse_result.success \/ ~result[FALSE].is_duplicate)
               => DestinationFields(result[TRUE].qr_code)
                     = DestinationFields(result[FALSE].qr_code)
        /\ (result[FALSE].classification.called \/ ~result[FALSE].is_duplicate)
               => ClassificationFields(result[TRUE].qr_code)
                     = ClassificationFields(result[FALSE].qr_code)

\* Both modes visited and classified the same payload with the same answers.
C6_Witness ==
    /\ SameAnalysisInputs
    /\ result[FALSE].browse_result.success
    /\ result[FALSE].classification.called
    /\ result[FALSE].qr_code.confidence_score = <<70>>

PastDecision(w) ==
    proc[w].pc \in {"browse", "update_destination", "update_screenshot", "classify",
                    "update_classification", "refresh"}
VisitStarted(w) == proc[w].pc = "browse" \/ proc[w].visits > 0

\* C7: in normal mode the visit is started iff the payload is a well-formed
\* URL and (is_duplicate is False or the skip-duplicates policy is off).
C7_DecisionNormalMode ==
    /\ \A w \in Workers :
        (~proc[w].debug_mode /\ PastDecision(w)) =>
            (VisitStarted(w) <=>
                /\ validators_url(proc[w].qr_content)
                /\ (~proc[w].is_duplicate \/ ~config.skip_duplicates))
    /\ result[FALSE].kind = "complete" =>
            (result[FALSE].visits > 0 <=>
                /\ validators_url(result[FALSE].qr_content)
                /\ (~result[FALSE].is_duplicate \/ ~config.skip_duplicates))

\* isUrl, isDuplicate, skip policy on, normal mode: no analysis.
C7_Witness ==
    /\ result[FALSE].kind = "complete"
    /\ validators_url(result[FALSE].qr_content)
    /\ result[FALSE].is_duplicate
    /\ config.skip_duplicates
    /\ result[FALSE].visits = 0
    /\ result[FALSE].browse_result = NoBrowse

\* C8: in debug mode the decision is true for every is_duplicate and every
\* skip policy, and a debug submission of a URL payload performs the visit.
C8_DebugAlwaysAnalyses ==
    /\ \A is_duplicate, skip_duplicates \in BOOLEAN :
        should_analyze(TRUE, is_duplicate, skip_duplicates)
    /\ \A w \in Workers :
        (proc[w].debug_mode /\ PastDecision(w)) =>
            (VisitStarted(w) <=> validators_url(proc[w].qr_content))
    /\ (result[TRUE].kind = "complete" /\ validators_url(result[TRUE].qr_content))
            => result[TRUE].visits > 0

\* A debug submission of a URL that already has a stored record, skip policy on.
C8_Witness ==
    /\ result[TRUE].kind = "complete"
    /\ config.skip_duplicates
    /\ RowsOf(result[TRUE].qr_content) # {}
    /\ result[TRUE].visits = 1
    /\ result[TRUE].browse_result.called

\* C9: a payload that is not a well-formed URL never reaches the visitor or
\* the classifier, in either mode, and its result carries browse_result None
\* and classification None.
C9_NonUrlNeverAnalysed ==
    /\ \A w \in Workers :
        proc[w].qr_content \in TextPayloads =>
            /\ proc[w].pc \notin {"browse", "update_destination", "update_screenshot",
                                  "classify", "update_classification"}
            /\ proc[w].visits = 0 /\ proc[w].classifications = 0
    /\ \A d \in BOOLEAN :
        result[d].qr_content \in TextPayloads =>
            /\ result[d].visits = 0 /\ result[d].classifications = 0
            /\ result[d].browse_result = NoBrowse
            /\ result[d].classification = NoClassification

\* A text payload went through both modes to a Complete result, the normal
\* one as a first sighting (so the duplicate policy did not decide).
C9_Witness ==
    /\ \A d \in BOOLEAN :
        result[d].kind = "complete" /\ result[d].qr_content \in TextPayloads
    /\ ~result[FALSE].is_duplicate

ReviewBoundary(r) ==
    /\ r.confidence_score = <<69>> => r.manual_review
    /\ r.confidence_score = <<70>> => ~r.manual_review
    /\ r.confidence_score = <<71>> => ~r.manual_review

\* C10: manual_review is true at confidence 0.69 and false at 0.70 and 0.71,
\* on the stored record and on the debug placeholder.
C10_ReviewFlagBoundary ==
    /\ \A i \in 1..Len(qr_codes) : ReviewBoundary(qr_codes[i])
    /\ \A w \in Workers : ReviewBoundary(proc[w].qr_code)
    /\ \A d \in BOOLEAN : ReviewBoundary(result[d].qr_code)

\* A stored record at 0.70 without the flag, a placeholder at 0.69 with it.
C10_Witness ==
    /\ \E i \in 1..Len(qr_codes) :
        qr_codes[i].confidence_score = <<70>> /\ ~qr_codes[i].manual_review
    /\ result[TRUE].qr_code.confidence_score = <<69>>
    /\ result[TRUE].qr_code.manual_review

FlagFollowsConfidence(r, threshold) ==
    r.confidence_score # <<>> => (r.manual_review <=> r.confidence_score[1] < threshold)

\* C11: every stored record and every debug placeholder whose confidence_score
\* is not null has manual_review = (confidence_score < 0.7): no operation
\* writes a confidence without recomputing the flag.
C11_ReviewFlagNeverStale ==
    /\ \A i \in 1..Len(qr_codes) :
        FlagFollowsConfidence(qr_codes[i], CLASSIFICATION_CONFIDENCE_THRESHOLD)
    /\ \A w \in Workers :
        FlagFollowsConfidence(proc[w].qr_code, CLASSIFICATION_CONFIDENCE_THRESHOLD)
    /\ \A d \in BOOLEAN :
        FlagFollowsConfidence(result[d].qr_code, CLASSIFICATION_CONFIDENCE_THRESHOLD)

\* A record found again was classified again, now at 0.69 and flagged, next to
\* a placeholder holding a failed classification (0.0) and flagged.
C11_Witness ==
    /\ result[FALSE].kind = "complete" /\ result[FALSE].is_duplicate
    /\ result[FALSE].classifications = 1
    /\ result[FALSE].qr_code.times_found = 2
    /\ result[FALSE].qr_code.confidence_score = <<69>>
    /\ result[FALSE].qr_code.manual_review
    /\ \E i \in 1..Len(qr_codes) : qr_codes[i] = result[FALSE].qr_code
    /\ result[TRUE].qr_code.confidence_score = <<0>>
    /\ result[TRUE].qr_code.manual_review

\* C12: for the configured threshold t (Config.CLASSIFICATION_CONFIDENCE_THRESHOLD)
\* the stored flag and the placeholder's flag equal (confidence < t).
C12_FlagFollowsConfiguredThreshold ==
    /\ \A i \in 1..Len(qr_codes) :
        FlagFollowsConfidence(qr_codes[i], config.confidence_threshold)
    /\ \A d \in BOOLEAN :
        FlagFollowsConfidence(result[d].qr_code, config.confidence_threshold)

FailedVisit(browse_result) == browse_result.called /\ ~browse_result.success

\* C13: when the visit of a URL payload fails (a timeout included), the
\* classifier is not invoked even if configured, and the submission ends with
\* a success=True result whose classification is None and whose browse_result
\* holds the error; for a first-time payload the record's destination and
\* classification fields are null.  The one other ending is a storage error
\* raised by the final re-read of the record, a fault of its own.
C13_VisitFailureDegrades ==
    /\ \A w \in Workers :
        FailedVisit(proc[w].browse_result) =>
            /\ proc[w].pc = "refresh"
            /\ proc[w].classifications = 0
            /\ proc[w].classification_result = NoClassification
    /\ \A d \in BOOLEAN :
        FailedVisit(result[d].visited) =>
            /\ result[d].classifications = 0
            /\ \/ /\ result[d].kind = "complete" /\ result[d].success
                  /\ result[d].classification = NoClassification
                  /\ result[d].browse_result = result[d].visited
                  /\ result[d].browse_result.error # "None"
                  /\ ~result[d].is_duplicate =>
                        /\ DestinationFields(result[d].qr_code) = DestinationFields(NoQRCode)
                        /\ ClassificationFields(result[d].qr_code)
                               = ClassificationFields(NoQRCode)
                        /\ \A i \in 1..Len(qr_codes) :
                              qr_codes[i].id = result[d].qr_code.id =>
                                  qr_codes[i] = result[d].qr_code
               \/ /\ ~d /\ result[d].kind = "failed"
                  /\ result[d].error = "StorageError"

\* With a classifier configured, a first-time URL payload whose visit timed
\* out ended in normal mode, and one whose browser failed ended in debug mode.
C13_Witness ==
    /\ config.classifier
    /\ result[FALSE].kind = "complete" /\ ~result[FALSE].is_duplicate
    /\ result[FALSE].browse_result.error = "Page load timeout"
    /\ result[TRUE].kind = "complete"
    /\ result[TRUE].browse_result.error = "Browser error"

ReplyFails(reply) == ~reply.api_ok \/ reply.confidence.kind = "garbage"
IsErrorResult(c) ==
    c.called /\ c.category = "error" /\ c.confidence = 0 /\ ~c.is_malicious

\* C14: a classification call that fails entirely (the API call raises, or the
\* response cannot be parsed) returns category 'error', confidence 0.0 and
\* is_malicious False instead of raising, and the submission ends with a
\* success=True result carrying it.  The one other ending is a storage error
\* raised by a later database step, a fault of its own.
C14_ClassifierFailureContained ==
    /\ \A w \in Workers :
        (proc[w].classifications > 0 /\ ReplyFails(proc[w].reply)) =>
            IsErrorResult(proc[w].classification_result)
    /\ \A d \in BOOLEAN :
        (result[d].classifications > 0 /\ ReplyFails(result[d].reply)) =>
            \/ /\ result[d].kind = "complete" /\ result[d].success
               /\ IsErrorResult(result[d].classification)
            \/ /\ ~d /\ result[d].kind = "failed"
               /\ result[d].error = "StorageError"

\* The API call raised in a normal-mode submission and the response could not
\* be parsed in a debug-mode one; both ended Complete.
C14_Witness ==
    /\ result[FALSE].kind = "complete" /\ result[FALSE].reply = ApiError
    /\ result[FALSE].qr_code.classification = "error"
    /\ result[TRUE].kind = "complete" /\ result[TRUE].reply.confidence = Garbage
    /\ result[TRUE].classification.category = "error"

Classified(w) == proc[w].pc = "classified" /\ proc[w].reply.api_ok
CategoryKept(reply) == IF reply.category \in CATEGORIES THEN reply.category ELSE "other"
MaliciousAnswer(reply) == reply.malicious \in {"yes", "true"}

\* C15: a response whose confidence is outside [0, 1] or cannot be parsed as a
\* number gives confidence 0.5, with the category and is_malicious of the same
\* response kept (the result is not a classification failure).
C15_ConfidenceCoercedToNeutral ==
    \A w \in Workers :
        LET reply == proc[w].reply
            cr == proc[w].classification_result
        IN
        (/\ Classified(w)
         /\ \/ reply.confidence.kind = "garbage"
            \/ /\ reply.confidence.kind = "number"
               /\ reply.confidence.value \notin 0..100)
        => /\ cr.confidence = 50
           /\ cr.category = CategoryKept(reply)
           /\ cr.is_malicious = MaliciousAnswer(reply)

\* C16: a response that parses and names a category outside CATEGORIES gives
\* category 'other' with the confidence and is_malicious of the same response;
\* a category inside CATEGORIES is kept as it is.
C16_UnknownCategoryCoerced ==
    \A w \in Workers :
        LET reply == proc[w].reply
            cr == proc[w].classification_result
        IN
        (Classified(w) /\ reply.confidence.kind # "garbage")
        => /\ reply.category \notin CATEGORIES => cr.category = "other"
           /\ reply.category \in CATEGORIES => cr.category = reply.category
           /\ cr.confidence =
                 IF reply.confidence.kind = "number" /\ reply.confidence.value \in 0..100
                 THEN reply.confidence.value ELSE 50
           /\ cr.is_malicious = MaliciousAnswer(reply)

\* 'clickbait' at 0.69, malicious, came back as 'other' at 0.69, malicious.
C16_Witness ==
    \E w \in Workers :
        /\ Classified(w)
        /\ proc[w].reply.category = "clickbait"
        /\ proc[w].reply.confidence = Number(69)
        /\ proc[w].reply.malicious = "yes"
        /\ proc[w].classification_result =
              [called |-> TRUE, category |-> "other", confidence |-> 69,
               is_malicious |-> TRUE]

\* C17: a failure of the update that attaches the screenshot reference to the
\* sighting is swallowed: the submission goes on to the classification step
\* and no failed result is returned for it.
C17_ScreenshotFailureSwallowed ==
    [][\A w \in Workers :
         (proc[w].pc = "update_screenshot" /\ proc'[w] # proc[w]) =>
             /\ proc'[w].pc = "classify"
             /\ result' = result]_vars

\* C18: a storage failure inside find_or_create_qr ends the submission with a
\* failed result: no QRSighting row is created and neither the visitor nor
\* the classifier is invoked.  (Otherwise the call goes on with a stored
\* record, and every sighting row belongs to a stored record.)
C18_StorageFailureAborts ==
    [][\A w \in Workers :
         (proc[w].pc \in {"find_query", "find_commit"} /\ proc'[w] # proc[w]) =>
             \/ /\ proc'[w].pc \in {"find_commit", "found"}
                /\ result' = result
                /\ proc'[w].pc = "found" =>
                      \E i \in 1..Len(qr_codes') :
                          qr_codes'[i].id = proc'[w].qr_code.id
             \/ /\ proc'[w] = IdleProc
                /\ result'[FALSE].kind = "failed" /\ ~result'[FALSE].success
                /\ result'[FALSE].error \in {"StorageError", "IntegrityError"}
                /\ result'[FALSE].visits = 0 /\ result'[FALSE].classifications = 0
                /\ result'[FALSE].sighting = "None"
                /\ sightings' = sightings /\ qr_codes' = qr_codes]_vars

\* The first submission failed in find_or_create_qr: a failed result, and
\* neither a record nor a sighting stored.
C18_Witness ==
    /\ result[FALSE].kind = "failed" /\ result[FALSE].error = "StorageError"
    /\ result[FALSE].qr_content \in UrlPayloads
    /\ qr_codes = <<>> /\ sightings = <<>>
    /\ started = 1

\* C19: in normal mode a failed visit rolls nothing back and writes nothing:
\* the record, with the times_found find_or_create_qr committed, and this
\* submission's sighting stay stored, and the record is as it was before the
\* visit, up to and including the step that returns it.
C19_FailedVisitKeepsWrites ==
    [][\A w \in Workers :
         (/\ ~proc[w].debug_mode /\ proc'[w] # proc[w]
          /\ FailedVisit(proc'[w].browse_result) \/ FailedVisit(proc[w].browse_result))
         => /\ qr_codes' = qr_codes /\ sightings' = sightings
            /\ \E i \in 1..Len(qr_codes) :
                 /\ qr_codes[i].id = proc[w].qr_code.id
                 /\ qr_codes[i].times_found = proc[w].qr_code.times_found
                 /\ proc[w].is_duplicate => qr_codes[i].times_found >= 2
                 /\ result'[FALSE].kind = "complete" => result'[FALSE].qr_code = qr_codes[i]
            /\ \E j \in 1..Len(sightings) :
                 /\ sightings[j].id = proc[w].sighting
                 /\ sightings[j].qr_code_id = proc[w].qr_code.id]_vars

\* A record visited and classified before was found again and its visit
\* failed: it came back with times_found 2 and the earlier analysis, and both
\* sightings are stored.
C19_Witness ==
    /\ result[FALSE].kind = "complete" /\ result[FALSE].is_duplicate
    /\ FailedVisit(result[FALSE].browse_result)
    /\ result[FALSE].qr_code.times_found = 2
    /\ result[FALSE].qr_code.destination_url # "None"
    /\ result[FALSE].qr_code.classification # "None"
    /\ \E i \in 1..Len(qr_codes) : qr_codes[i] = result[FALSE].qr_code
    /\ Cardinality(SightingsOf(result[FALSE].qr_code.id)) = 2

\* C20: the classifier is invoked only when one is configured and only after
\* a successful visit; with none configured every submission skips the
\* classification, its result has classification None, and no record's or
\* placeholder's classification fields are written.
C20_ClassifierOnlyWhenConfigured ==
    /\ \A w \in Workers :
        (proc[w].classifications > 0 \/ proc[w].pc = "update_classification") =>
            /\ config.classifier
            /\ proc[w].browse_result.success
    /\ \A d \in BOOLEAN :
        result[d].classifications > 0 =>
            config.classifier /\ result[d].visited.success
    /\ ~config.classifier =>
        /\ \A w \in Workers :
            /\ proc[w].classifications = 0
            /\ proc[w].classification_result = NoClassification
            /\ ClassificationFields(proc[w].qr_code) = ClassificationFields(NoQRCode)
        /\ \A d \in BOOLEAN :
            /\ result[d].classifications = 0
            /\ result[d].classification = NoClassification
            /\ ClassificationFields(result[d].qr_code) = ClassificationFields(NoQRCode)
        /\ \A i \in 1..Len(qr_codes) :
            ClassificationFields(qr_codes[i]) = ClassificationFields(NoQRCode)

\* With no classifier configured, a URL payload was visited with success in
\* both modes: destinations written, classification fields null.
C20_Witness ==
    /\ ~config.classifier
    /\ \A d \in BOOLEAN :
        /\ result[d].kind = "complete" /\ result[d].browse_result.success
        /\ result[d].classification = NoClassification
        /\ result[d].qr_code.destination_url # "None"
        /\ result[d].qr_code.classification = "None"
        /\ result[d].qr_code.confidence_score = <<>>

\* The position of each step in the body of process_qr_submission.
Rank(pc) ==
    CASE pc = "find_query" -> 1
      [] pc = "find_commit" -> 2
      [] pc = "found" -> 3
      [] pc = "decide" -> 4
      [] pc = "browse" -> 5
      [] pc = "update_destination" -> 6
      [] pc = "update_screenshot" -> 7
      [] pc = "classify" -> 8
      [] pc = "update_classification" -> 9
      [] pc = "refresh" -> 10
      [] OTHER -> 0

StructuredResult(r) ==
    \/ /\ r.kind = "failed" /\ ~r.success /\ r.error # "None"
       /\ r.qr_code = NoQRCode /\ r.browse_result = NoBrowse
       /\ r.classification = NoClassification
    \/ /\ r.kind = "complete" /\ r.success /\ r.error = "None"
       /\ r.qr_code # NoQRCode /\ r.has_debug_mode
       /\ r.debug_mode => (r.sighting = "None" /\ r.qr_code.id = "debug")
       /\ ~r.debug_mode => (r.sighting # "None" /\ r.qr_code.id # "debug")

\* C21: process_qr_submission always ends with one structured result and lets
\* no exception escape: a running submission always has a next step, every
\* step moves it forward in the body, and the step that ends it returns either
\* a failed result (success=False with an error) or a Complete result
\* (success=True with the record or placeholder, is_duplicate, the sighting,
\* None in debug mode, browse_result, classification and debug_mode).
C21_AlwaysStructuredResult ==
    [][/\ AllIdle \/ ENABLED Next
       /\ \A w \in Workers :
            /\ (proc[w].pc # "idle" /\ proc'[w].pc # "idle") =>
                   Rank(proc'[w].pc) > Rank(proc[w].pc)
            /\ (proc[w].pc # "idle" /\ proc'[w].pc = "idle") =>
                   /\ StructuredResult(result'[proc[w].debug_mode])
                   /\ result'[~proc[w].debug_mode] = result[~proc[w].debug_mode]
       /\ (AllIdle /\ AllIdle' /\ started' # started) =>
            \E d \in BOOLEAN :
                /\ StructuredResult(result'[d]) /\ result'[d].kind = "failed"
                /\ result'[~d] = result[~d]]_vars

\* One submission ended with a failed result after a storage error, another
\* with a Complete result.
C21_Witness ==
    /\ AllIdle
    /\ result[FALSE].kind = "failed" /\ result[FALSE].error = "StorageError"
    /\ result[TRUE].kind = "complete" /\ result[TRUE].visits = 1

RecordCommitted(p) == \E i \in 1..Len(qr_codes) : qr_codes[i].id = p.qr_code.id
SightingAppended(p) ==
    \E j \in 1..Len(sightings) :
        sightings[j].id = p.sighting /\ sightings[j].qr_code_id = p.qr_code.id

\* C22: within a normal-mode submission the record is committed before the
\* sighting is appended, the sighting is appended before the visit starts,
\* and the classifier is called only after the visit has returned.
C22_StrictStepOrder ==
    /\ \A w \in Workers :
        LET p == proc[w] IN
        (p.pc # "idle" /\ ~p.debug_mode) =>
            /\ (Rank(p.pc) >= 3 \/ p.sighting # "None") => RecordCommitted(p)
            /\ (Rank(p.pc) >= 4 \/ p.visits > 0) => SightingAppended(p)
            /\ Rank(p.pc) <= 5 => (p.visits = 0 /\ ~p.browse_result.called)
            /\ Rank(p.pc) \in 6..9 => p.visits = 1
            /\ (p.pc = "update_classification" \/ p.classifications > 0) =>
                   (p.visits = 1 /\ p.browse_result.called)
            /\ Rank(p.pc) <= 8 => p.classifications = 0
    /\ result[FALSE].kind = "complete" =>
           /\ result[FALSE].sighting # "None"
           /\ result[FALSE].classifications > 0 => result[FALSE].visits = 1

\* A normal-mode submission about to store its classification: record,
\* sighting, visit and classifier call all behind it.
C22_Witness ==
    \E w \in Workers :
        /\ proc[w].pc = "update_classification" /\ ~proc[w].debug_mode
        /\ RecordCommitted(proc[w]) /\ SightingAppended(proc[w])
        /\ proc[w].visits = 1 /\ proc[w].classifications = 1

\* C23: within one submission the visitor is invoked at most once and the
\* classifier at most once, whatever they answer.
C23_NoRetry ==
    /\ \A w \in Workers : proc[w].visits <= 1 /\ proc[w].classifications <= 1
    /\ \A d \in BOOLEAN : result[d].visits <= 1 /\ result[d].classifications <= 1

\* A submission whose visit timed out ended after one visit, and one whose
\* API call raised ended after one classifier call.
C23_Witness ==
    /\ result[FALSE].kind = "complete"
    /\ result[FALSE].browse_result.error = "Page load timeout"
    /\ result[FALSE].visits = 1
    /\ result[TRUE].kind = "complete" /\ result[TRUE].reply = ApiError
    /\ result[TRUE].classifications = 1

\* C24: the safety check is advisory: whenever the analysis runs the visit is
\* made, whether check_url_safety answers is_safe True or False, and the
\* warnings it returned are the ones passed to the classifier.
C24_SafetyCheckAdvisory ==
    /\ \A w \in Workers :
        LET p == proc[w] IN
        /\ (/\ p.pc \in {"classify", "update_classification", "refresh"}
            /\ analysis_runs(p.debug_mode, p.is_duplicate, config.skip_duplicates,
                             p.qr_content))
           => (p.visits = 1 /\ p.browse_result.called)
        /\ p.classifications > 0 =>
               p.classifier_warnings = check_url_safety_warnings(p.qr_content)
    /\ \A d \in BOOLEAN :
        /\ (result[d].kind = "complete" /\ validators_url(result[d].qr_content)
            /\ ~result[d].is_duplicate)
           => result[d].visits = 1
        /\ result[d].classifications > 0 =>
               result[d].classifier_warnings
                   = check_url_safety_warnings(result[d].qr_content)

\* A URL the check calls unsafe, with two warnings, was visited and
\* classified with exactly those warnings.
C24_Witness ==
    /\ result[TRUE].kind = "complete"
    /\ ~check_url_safety_is_safe(result[TRUE].qr_content)
    /\ result[TRUE].visits = 1 /\ result[TRUE].browse_result.success
    /\ result[TRUE].classifications = 1
    /\ result[TRUE].classifier_warnings
          = {"Suspicious TLD", "Contains suspicious keywords"}

\* C25: when the image holds no QR code or cannot be read, the submission
\* ends with a failed result carrying the 'No QR code found' error, neither
\* table is touched, and no visit or classification is made.
C25_DecodeFailure ==
    [][(AllIdle /\ AllIdle' /\ started' # started) =>
          /\ qr_codes' = qr_codes /\ sightings' = sightings
          /\ \E d \in BOOLEAN :
               /\ result'[~d] = result[~d]
               /\ result'[d].kind = "failed" /\ ~result'[d].success
               /\ result'[d].error = "No QR code found in image"
               /\ result'[d].visits = 0 /\ result'[d].classifications = 0]_vars

\* C26: the sighting log is append-only.  A normal-mode submission whose
\* find_or_create_qr and add_sighting succeed adds exactly one row, for its
\* record and its image; no step removes a row or changes a row of an earlier
\* submission; the only later write is screenshot_path on the submission's
\* own row.
C26_SightingsAppendOnly ==
    [][/\ Len(sightings') \in {Len(sightings), Len(sightings) + 1}
       /\ \A j \in 1..Len(sightings) :
            \/ sightings'[j] = sightings[j]
            \/ \E w \in Workers :
                 /\ proc[w].pc = "update_screenshot"
                 /\ proc[w].sighting = sightings[j].id
                 /\ proc[w].image_path = sightings[j].image_path
                 /\ sightings'[j] = [sightings[j] EXCEPT !.screenshot_path =
                                        proc[w].browse_result.screenshot_path]
       /\ \A w \in Workers :
            (proc[w].pc = "found" /\ proc'[w].pc = "decide") <=>
                /\ Len(sightings') = Len(sightings) + 1
                /\ sightings'[Len(sightings')].qr_code_id = proc[w].qr_code.id
                /\ sightings'[Len(sightings')].image_path = proc[w].image_path
                /\ sightings'[Len(sightings')].id = proc'[w].sighting
       /\ \A j, k \in 1..Len(sightings') :
            j # k => /\ sightings'[j].id # sightings'[k].id
                     /\ sightings'[j].image_path # sightings'[k].image_path]_vars

\* Two sightings of one record: the earlier one, whose visit failed, still
\* without a screenshot after the later one got its own.
C26_Witness ==
    /\ Len(sightings) = 2
    /\ sightings[1].qr_code_id = sightings[2].qr_code_id
    /\ sightings[1].screenshot_path = "None"
    /\ sightings[2].screenshot_path # "None"
    /\ result[FALSE].kind = "complete" /\ result[FALSE].sighting = sightings[2].id

IdentityFields(r) == <<r.id, r.content_hash, r.qr_content, r.first_seen>>

\* C27: once a QRCode record is created, no step of any submission (a
\* duplicate sighting, a visit, a classification) removes it or changes its
\* id, content_hash, qr_content or first_seen.
C27_IdentityImmutable ==
    [][/\ Len(qr_codes') >= Len(qr_codes)
       /\ \A i \in 1..Len(qr_codes) :
            IdentityFields(qr_codes'[i]) = IdentityFields(qr_codes[i])]_vars

\* A record created by the first submission, found again, visited and
\* classified, still with the identity it was created with.
C27_Witness ==
    \E i \in 1..Len(qr_codes) :
        /\ qr_codes[i].times_found >= 2
        /\ qr_codes[i].destination_url # "None"
        /\ qr_codes[i].classification # "None"
        /\ IdentityFields(qr_codes[i])
              = <<"1", hash_qr_content(qr_codes[i].qr_content),
                  "http://shop.example/login", 1>>

\* C28: with the skip-duplicates policy on, a normal-mode submission of a
\* payload that already has a record changes only that record's times_found,
\* by one, and adds one sighting: it makes no visit and no classification, and
\* the record's seven analysis fields are after it what they were before it.
C28_DuplicateSkipFrame ==
    [][config.skip_duplicates =>
        \A w \in Workers :
            /\ (/\ proc[w].pc = "find_commit" /\ proc'[w].pc = "found"
                /\ proc[w].qr_code.id # "None")
               => /\ proc'[w].is_duplicate
                  /\ sightings' = sightings
                  /\ \E i \in 1..Len(qr_codes) :
                       /\ qr_codes[i].id = proc[w].qr_code.id
                       /\ qr_codes' = [qr_codes EXCEPT ![i].times_found = @ + 1]
            /\ (proc[w].is_duplicate /\ proc'[w] # proc[w])
               => /\ qr_codes' = qr_codes
                  /\ proc[w].pc \in {"found", "decide", "refresh"}
                  /\ proc[w].visits = 0 /\ proc[w].classifications = 0
                  /\ IF proc[w].pc = "found" /\ proc'[w].pc = "decide"
                     THEN /\ Len(sightings') = Len(sightings) + 1
                          /\ \A j \in 1..Len(sightings) : sightings'[j] = sightings[j]
                     ELSE sightings' = sightings
                  /\ (proc'[w].pc = "idle" /\ result'[FALSE].kind = "complete") =>
                        /\ result'[FALSE].browse_result = NoBrowse
                        /\ result'[FALSE].classification = NoClassification
                        /\ \E i \in 1..Len(qr_codes) :
                              qr_codes[i] = result'[FALSE].qr_code]_vars

\* With the policy on, a record visited and classified by its first
\* submission was found again: times_found 2, two sightings, no visit, and
\* the analysis of the first submission still on it.
C28_Witness ==
    /\ config.skip_duplicates
    /\ result[FALSE].kind = "complete" /\ result[FALSE].is_duplicate
    /\ result[FALSE].visits = 0
    /\ result[FALSE].qr_code.times_found = 2
    /\ result[FALSE].qr_code.destination_url # "None"
    /\ result[FALSE].qr_code.confidence_score # <<>>
    /\ Cardinality(SightingsOf(result[FALSE].qr_code.id)) = 2
    /\ \E i \in 1..Len(qr_codes) : qr_codes[i] = result[FALSE].qr_code

VisitValues(br) == <<br.destination_url, br.final_url, br.title>>

ErrorFields == <<"error", <<0>>, FALSE, TRUE>>

\* C30: when the visit succeeds and the configured classifier fails, the
\* failure result is applied like any other: the record, or the placeholder
\* in debug mode, ends with classification 'error', confidence_score 0.0,
\* is_malicious False and manual_review True.
C30_ClassifierFailureApplied ==
    /\ \A w \in Workers :
        LET p == proc[w] IN
        (p.pc = "refresh" /\ p.classifications > 0 /\ ReplyFails(p.reply))
        => /\ p.browse_result.success
           /\ IF p.debug_mode
              THEN ClassificationFields(p.qr_code) = ErrorFields
              ELSE \E i \in 1..Len(qr_codes) :
                       /\ qr_codes[i].id = p.qr_code.id
                       /\ ClassificationFields(qr_codes[i]) = ErrorFields
    /\ \A d \in BOOLEAN :
        (/\ result[d].kind = "complete" /\ result[d].classifications > 0
         /\ ReplyFails(result[d].reply))
        => /\ result[d].browse_result.success
           /\ ClassificationFields(result[d].qr_code) = ErrorFields

\* A record found again with the policy off was visited with success and its
\* classifier call raised: the stored record now reads 'error', flagged for
\* review; a placeholder reads the same after an unparseable response.
C30_Witness ==
    /\ result[FALSE].kind = "complete" /\ result[FALSE].is_duplicate
    /\ result[FALSE].reply = ApiError
    /\ \E i \in 1..Len(qr_codes) :
          /\ qr_codes[i].id = result[FALSE].qr_code.id
          /\ ClassificationFields(qr_codes[i]) = ErrorFields
    /\ result[TRUE].kind = "complete" /\ result[TRUE].reply.confidence = Garbage
    /\ ClassificationFields(result[TRUE].qr_code) = ErrorFields

\* C31: in debug mode the duplicate flag and the count do not reflect the
\* store: whatever the store holds, a record for the payload included, the
\* debug result has is_duplicate False, sighting None and a placeholder with
\* id 'debug' and times_found 0.
C31_DebugResultIgnoresStore ==
    /\ \A w \in Workers :
        (proc[w].pc # "idle" /\ proc[w].debug_mode) =>
            /\ ~proc[w].is_duplicate /\ proc[w].sighting = "None"
            /\ proc[w].qr_code.id = "debug" /\ proc[w].qr_code.times_found = 0
    /\ result[TRUE].kind = "complete" =>
            /\ ~result[TRUE].is_duplicate /\ result[TRUE].sighting = "None"
            /\ result[TRUE].qr_code.id = "debug"
            /\ result[TRUE].qr_code.times_found = 0
            /\ result[TRUE].qr_code.qr_content = result[TRUE].qr_content

\* The first submission stored a record for the payload; the second, in
\* debug mode, carried the same payload and ended Complete.
C31_Witness ==
    /\ AllIdle /\ started = 2
    /\ result[TRUE].kind = "complete"
    /\ \E i \in RowsOf(result[TRUE].qr_content) :
          qr_codes[i].first_seen = 1 /\ qr_codes[i].times_found = 1
    /\ SightingsOf("1") # {}

\* C32: the record of a Complete normal-mode result is the stored record as
\* it is when the submission completes, after all the submission's writes:
\* times_found, the destination fields of this submission's visit and the
\* classification fields of this submission's classification included.
C32_ResultRecordRefreshed ==
    result[FALSE].kind = "complete" =>
        /\ \E i \in 1..Len(qr_codes) :
              /\ qr_codes[i].id = result[FALSE].qr_code.id
              /\ qr_codes[i] = result[FALSE].qr_code
        /\ result[FALSE].qr_code.qr_content = result[FALSE].qr_content
        /\ result[FALSE].qr_code.times_found = Len(history[result[FALSE].qr_content])
        /\ result[FALSE].is_duplicate <=> result[FALSE].qr_code.times_found >= 2
        /\ result[FALSE].browse_result.success =>
              DestinationFields(result[FALSE].qr_code)
                  = VisitValues(result[FALSE].browse_result)
        /\ result[FALSE].classifications > 0 =>
              /\ result[FALSE].qr_code.classification
                    = result[FALSE].classification.category
              /\ result[FALSE].qr_code.confidence_score
                    = <<result[FALSE].classification.confidence>>
              /\ result[FALSE].qr_code.is_malicious
                    = result[FALSE].classification.is_malicious
              /\ result[FALSE].qr_code.manual_review
                    = (result[FALSE].classification.confidence < 70)

\* A record found again was visited and classified by the submission; the
\* result carries the record with the new count and the new analysis.
C32_Witness ==
    /\ result[FALSE].kind = "complete" /\ result[FALSE].is_duplicate
    /\ result[FALSE].browse_result.success /\ result[FALSE].classifications = 1
    /\ result[FALSE].qr_code.times_found = 2
    /\ result[FALSE].qr_code.site_title = "Landing"
    /\ result[FALSE].qr_code.confidence_score = <<71>>
    /\ \E i \in 1..Len(qr_codes) : qr_codes[i] = result[FALSE].qr_code
====
